---- MODULE Spec2Model ----
(***************************************************************************)
(* Model of unishortcuts.py: the Shortcut metadata record, its process-    *)
(* wide registry Shortcut._instances (a Python set hashed and compared by  *)
(* name) and build_shortcuts._get_metadatas ("resolve").                   *)
(*                                                                         *)
(* Python values that reach a setter are tagged records [t, v]; t is the   *)
(* Python type and v the payload.  Stored fields are plain strings and     *)
(* sequences.  The fields arguments, special_arg and mime_type are left    *)
(* out: every construction of the model passes None for them, which their  *)
(* setters accept, and resolve never reads them.                           *)
(***************************************************************************)
EXTENDS Naturals, Sequences, FiniteSets, TLC

VARIABLES
    heap,       \* the Shortcut objects alive, indexed by identity
    instances,  \* Shortcut._instances: entries [obj, hash] in iteration order
    declared,   \* identities of the objects the package author constructed
    dist,       \* self.distribution.metadata: description, classifiers, keywords
    fs,         \* the filesystem: is data/ a directory, the files that exist
    platform,   \* sys.platform (as characters) and os.name
    ret         \* outcome of the last operation

vars == <<heap, instances, declared, dist, fs, platform, ret>>

----------------------------------------------------------------------------
(* Bounds *)

MaxObjs == 2
MaxRecord == 1
MaxClassifiers == 2

----------------------------------------------------------------------------
(* Python values *)

PyNone == [t |-> "NoneType", v |-> ""]
PyStr(s) == [t |-> "str", v |-> s]
PyList(l) == [t |-> "list", v |-> l]
PyInt(n) == [t |-> "int", v |-> n]
PyPath(p) == [t |-> "Path", v |-> p]

\* == between two Python values: values of different types are unequal
PyEq(a, b) == a.t = b.t /\ a.v = b.v

\* truth value of a Python value
Truthy(x) ==
    CASE x.t = "NoneType" -> FALSE
      [] x.t = "str" -> x.v # ""
      [] x.t = "list" -> x.v # <<>>
      [] x.t = "int" -> x.v # 0
      [] OTHER -> TRUE

\* x in l, for a Python list or tuple l
InList(x, l) == \E k \in 1..Len(l) : l[k] = x

\* a path is [dir, file]: dir the directory parts (first part "/" when the
\* path is absolute), file the dot-separated parts of the file name
Root(p) == IF p.dir # <<>> /\ p.dir[1] = "/" THEN "/" ELSE ""
Suffix(p) == IF Len(p.file) >= 2 THEN "." \o p.file[Len(p.file)] ELSE ""

\* startswith on strings held as sequences of characters
StartsWith(s, prefix) ==
    Len(s) >= Len(prefix) /\ SubSeq(s, 1, Len(prefix)) = prefix

----------------------------------------------------------------------------
(* Module constants *)

Darwin == <<"d", "a", "r", "w", "i", "n">>
Win == <<"w", "i", "n">>
Linux == <<"l", "i", "n", "u", "x">>

_get_platform(p) ==
    IF p.sys = Darwin THEN PyStr("darwin")
    ELSE IF p.os = "nt" \/ StartsWith(p.sys, Win) THEN PyStr("win")
    ELSE IF StartsWith(p.sys, Linux) THEN PyStr("linux")
    ELSE PyNone

_here == PyPath(<<"/", "pkg">>)

_FREE_DESKTOP_CATEGORIES ==
    <<"AudioVideo", "Audio", "Video", "Development", "Education", "Game",
      "Graphics", "Network", "Office", "Settings", "System", "Utility">>

_ICON_EXT ==
    [linux |-> <<"ico", "svg", "png">>, win |-> <<"ico">>, darwin |-> <<"icns">>]

----------------------------------------------------------------------------
(* Shortcut: the property setters.  Each returns [ok, val, err]. *)

Ok(val) == [ok |-> TRUE, val |-> val, err |-> ""]
Raise(err, val) == [ok |-> FALSE, val |-> val, err |-> err]

\* script, name, generic_name, description: str(s) if s else ''
StrSetter(s) == IF Truthy(s) THEN s.v ELSE ""

\* icon: the paths of s, each checked against _here.  i.root is a str and
\* _here a Path, so the comparison is between values of different types.
IconPaths(s) ==
    IF s.t = "list" THEN s.v
    ELSE IF Truthy(s) THEN <<s.v>> ELSE <<>>

IconSetter(s) ==
    LET paths == IconPaths(s)
    IN IF \E k \in 1..Len(paths) : ~PyEq(PyStr(Root(paths[k])), _here)
       THEN Raise("AttributeError", paths)
       ELSE Ok(paths)

\* faulty variant: the membership test dropped, any string is stored
CategorySetter_AnyString(s, old) ==
    IF s.t = "str" THEN Ok(s.v)
    ELSE IF s.t = "NoneType" THEN Ok("")
    ELSE Raise("TypeError", old)

\* category: a member of the list is stored, None stores '', else TypeError
CategorySetter(s, old) ==
    IF s.t = "str" /\ InList(s.v, _FREE_DESKTOP_CATEGORIES) THEN Ok(s.v)
    ELSE IF s.t = "NoneType" THEN Ok("")
    ELSE Raise("TypeError", old)

\* keywords: a list is stored as its strings, None as [], else TypeError.
\* (The str branch, re.split, is not modelled: no input here is a str.)
KeywordsSetter(s, old) ==
    IF s.t = "list" THEN Ok([k \in 1..Len(s.v) |-> s.v[k]])
    ELSE IF s.t = "NoneType" THEN Ok(<<>>)
    ELSE Raise("TypeError", old)

\* Shortcut.__init__: the assignments in source order; the first setter that
\* raises ends the construction.
__init__(script, name, generic_name, description, icon, category, keywords) ==
    LET ic == IconSetter(icon)
        ca == CategorySetter(category, "")
        kw == KeywordsSetter(keywords, <<>>)
        rec == [script |-> StrSetter(script),
                name |-> StrSetter(name),
                generic_name |-> StrSetter(generic_name),
                description |-> StrSetter(description),
                icon |-> ic.val,
                category |-> ca.val,
                keywords |-> kw.val]
    IN IF ~ic.ok THEN Raise(ic.err, rec)
       ELSE IF ~ca.ok THEN Raise(ca.err, rec)
       ELSE IF ~kw.ok THEN Raise(kw.err, rec)
       ELSE Ok(rec)

----------------------------------------------------------------------------
(* Shortcut._instances: a set whose entries keep the hash computed when the *)
(* object was added.  set.add(x) treats an entry as x when the stored hash  *)
(* equals hash(x) and the entry is x or __eq__ holds on the current names.  *)

__hash__(rec) == rec.name
__eq__(a, b) == b.name = a.name

Contains(table, h, o, rec) ==
    \E k \in 1..Len(table) :
        /\ table[k].hash = __hash__(rec)
        /\ (table[k].obj = o \/ __eq__(rec, h[table[k].obj]))

InsertAt(seq, pos, e) ==
    SubSeq(seq, 1, pos - 1) \o <<e>> \o SubSeq(seq, pos, Len(seq))

\* _instances.add(instance); pos is the place the new entry takes in the
\* iteration order.  Python leaves the order of a set unspecified; CPython
\* derives it from the string hashes, which are randomized per process, so
\* every place is a possible outcome.
SetAdd(table, h, o, rec, pos) ==
    IF Contains(table, h, o, rec) THEN table
    ELSE InsertAt(table, pos, [obj |-> o, hash |-> __hash__(rec)])

Registered == {instances[k].obj : k \in 1..Len(instances)}

\* an object nobody refers to any more: the record the last resolve returned
\* without registering it is dropped when the caller takes the next result
Collected ==
    IF /\ Len(heap) > 0
       /\ Len(heap) \notin Registered
       /\ Len(heap) \notin declared
    THEN SubSeq(heap, 1, Len(heap) - 1)
    ELSE heap

----------------------------------------------------------------------------
(* build_shortcuts._get_metadatas: the back-filling of the chosen record *)

DataDir == _here.v \o <<"data">>

\* data.glob('%s.*' % name): the files of data/ named name + "." + anything
Glob(name) ==
    {p \in fs.files : p.dir = DataDir /\ Len(p.file) >= 2 /\ p.file[1] = name}

\* the order in which the directory listing yields a set of files
RECURSIVE Listing(_)
Listing(S) ==
    IF S = {} THEN <<>>
    ELSE LET p == CHOOSE q \in S : TRUE IN <<p>> \o Listing(S \ {p})

\* [icon for icon in icons if icon.suffix in _ICON_EXT[_get_platform()]]
IconFilter(p, exts) == InList(Suffix(p), exts)

\* for ic in shortcut.icon: if not ic.exists(): shortcut.icon.remove(ic)
\* (the list is iterated by index while elements are removed from it)
RemoveFirst(l, x) ==
    LET k == CHOOSE j \in 1..Len(l) : l[j] = x /\ \A m \in 1..(j - 1) : l[m] # x
    IN SubSeq(l, 1, k - 1) \o SubSeq(l, k + 1, Len(l))

RECURSIVE DropMissing(_, _)
DropMissing(l, i) ==
    IF i > Len(l) THEN l
    ELSE IF l[i] \notin fs.files THEN DropMissing(RemoveFirst(l, l[i]), i + 1)
    ELSE DropMissing(l, i + 1)

\* lines 315-326
FillIcon(rec) ==
    IF rec.icon = <<>>
    THEN IF fs.dataIsDir
         THEN LET found == Glob(rec.name)
                  plat == _get_platform(platform)
              IN IF found # {} /\ plat.t = "NoneType"
                 THEN Raise("KeyError", rec.icon)
                 ELSE IconSetter(PyList(
                          SelectSeq(Listing(found),
                                    LAMBDA p : IconFilter(p, _ICON_EXT[plat.v]))))
         ELSE IconSetter(PyNone)
    ELSE Ok(DropMissing(rec.icon, 1))

\* lines 309-310
FillName(rec) ==
    IF rec.name = "" THEN [rec EXCEPT !.name = StrSetter(PyStr(rec.script))]
    ELSE rec

\* lines 312-313
FillGenericName(rec) ==
    IF rec.generic_name = ""
    THEN [rec EXCEPT !.generic_name = StrSetter(PyStr(rec.name))]
    ELSE rec

\* faulty variant: the emptiness test dropped, the description is overwritten
FillDescription_Overwrites(rec) ==
    [rec EXCEPT !.description = StrSetter(dist.description)]

\* lines 328-329
FillDescription(rec) ==
    IF rec.description = ""
    THEN [rec EXCEPT !.description = StrSetter(dist.description)]
    ELSE rec

\* lines 336-339: the first segment of cf that is a category, "" when none
RECURSIVE FirstCategory(_)
FirstCategory(cf) ==
    IF cf = <<>> THEN ""
    ELSE IF InList(Head(cf), _FREE_DESKTOP_CATEGORIES) THEN Head(cf)
    ELSE FirstCategory(Tail(cf))

\* lines 333-339: the loop over the classifiers; a classifier is held as the
\* stripped segments of cf.split('::').  The break leaves the inner loop only.
RECURSIVE ScanClassifiers(_, _)
ScanClassifiers(cat, cfs) ==
    IF cfs = <<>> THEN cat
    ELSE LET cf == Head(cfs)
             c == FirstCategory(cf)
         IN ScanClassifiers(
                IF cf[1] = "Topic" /\ c # ""
                THEN CategorySetter(PyStr(c), cat).val ELSE cat,
                Tail(cfs))

\* lines 332-339
FillCategory(rec) ==
    IF rec.category = ""
    THEN [rec EXCEPT !.category = ScanClassifiers(rec.category, dist.classifiers)]
    ELSE rec

\* faulty variant: the emptiness test inverted, empty keywords stay empty
FillKeywords_Inverted(rec) ==
    IF rec.keywords # <<>>
    THEN [rec EXCEPT !.keywords = KeywordsSetter(dist.keywords, rec.keywords).val]
    ELSE rec

\* lines 342-343
FillKeywords(rec) ==
    IF rec.keywords = <<>>
    THEN [rec EXCEPT !.keywords = KeywordsSetter(dist.keywords, rec.keywords).val]
    ELSE rec

\* lines 308-345: an exception in the icon step leaves the record with the
\* name and generic_name already assigned
Fill(rec) ==
    LET r2 == FillGenericName(FillName(rec))
        ic == FillIcon(r2)
    IN IF ~ic.ok THEN Raise(ic.err, r2)
       ELSE Ok(FillKeywords(FillCategory(FillDescription(
                [r2 EXCEPT !.icon = ic.val]))))

\* lines 304-307: the first entry, in iteration order, whose script matches
Scan(table, h, script, bare) ==
    IF \E k \in 1..Len(table) : h[table[k].obj].script = script
    THEN table[CHOOSE k \in 1..Len(table) :
                 /\ h[table[k].obj].script = script
                 /\ \A m \in 1..(k - 1) : h[table[m].obj].script # script].obj
    ELSE bare

----------------------------------------------------------------------------
(* Inputs *)

Scripts == {"a", "b"}
InsidePath == [dir |-> <<"/", "pkg", "data">>, file |-> <<"a", "png">>]
OutsidePath == [dir |-> <<"/", "etc">>, file |-> <<"a", "png">>]

\* what the author passes besides the script
Args(name, generic_name, description, icon, category, keywords) ==
    [name |-> name, generic_name |-> generic_name, description |-> description,
     icon |-> icon, category |-> category, keywords |-> keywords]
NoArgs == Args(PyNone, PyNone, PyNone, PyNone, PyNone, PyNone)
ValidArgs ==
    {NoArgs,
     Args(PyStr("X"), PyNone, PyNone, PyNone, PyStr("Graphics"), PyNone),
     Args(PyStr("X"), PyStr("G"), PyStr("x"), PyNone, PyNone, PyList(<<"k">>)),
     Args(PyNone, PyNone, PyStr("x"), PyNone, PyStr("Game"), PyNone)}
InvalidArgs ==
    {[NoArgs EXCEPT !.icon = PyPath(InsidePath)],
     [NoArgs EXCEPT !.icon = PyList(<<InsidePath>>)],
     [NoArgs EXCEPT !.icon = PyPath(OutsidePath)],
     [NoArgs EXCEPT !.category = PyStr("Bogus")],
     [NoArgs EXCEPT !.category = PyStr("")],
     [NoArgs EXCEPT !.keywords = PyInt(5)]}
ShortcutArgs == ValidArgs \cup InvalidArgs
CategoryArgs == {PyNone, PyStr("Game"), PyStr("Bogus")}

Descriptions == {PyNone, PyStr("D")}
ClassifierPool ==
    {<<"Topic", "Utility">>,
     <<"Topic", "Multimedia", "Graphics">>,
     <<"Topic", "System", "Video">>,
     <<"Topic", "Utilities">>,
     <<"Intended Audience", "Education">>}
ClassifierLists ==
    UNION {[1..n -> ClassifierPool] : n \in 0..MaxClassifiers}
KeywordLists == {PyList(<<>>), PyList(<<"sample", "app">>)}
Dists ==
    [description : Descriptions, classifiers : ClassifierLists,
     keywords : KeywordLists]

DataFile(f) == [dir |-> DataDir, file |-> f]
Filesystems ==
    {[dataIsDir |-> FALSE, files |-> {}],
     [dataIsDir |-> TRUE, files |-> {}],
     [dataIsDir |-> TRUE, files |-> {DataFile(<<"a", "png">>), DataFile(<<"a", "txt">>)}],
     [dataIsDir |-> TRUE,
      files |-> {DataFile(<<"a", "ico">>), DataFile(<<"a", "icns">>),
                 DataFile(<<"b", "backup", "ico">>)}]}
Platforms ==
    {[sys |-> Darwin, os |-> "posix"],
     [sys |-> <<"w", "i", "n", "3", "2">>, os |-> "nt"],
     [sys |-> Linux, os |-> "posix"],
     [sys |-> <<"f", "r", "e", "e", "b", "s", "d">>, os |-> "posix"]}

SampleDist ==
    [description |-> PyStr("D"),
     classifiers |-> <<<<"Topic", "Utility">>, <<"Topic", "System", "Video">>>>,
     keywords |-> PyList(<<"sample", "app">>)]
BareDist == [description |-> PyNone, classifiers |-> <<>>, keywords |-> PyList(<<>>)]
LinuxNoData == <<[dataIsDir |-> FALSE, files |-> {}], [sys |-> Linux, os |-> "posix"]>>
LinuxData ==
    <<[dataIsDir |-> TRUE,
       files |-> {DataFile(<<"a", "png">>), DataFile(<<"a", "txt">>)}],
      [sys |-> Linux, os |-> "posix"]>>

----------------------------------------------------------------------------
(* Operations *)

NoRet == [op |-> "none", script |-> "", obj |-> 0, fresh |-> FALSE,
          err |-> "", arg |-> PyNone]

InitWith(ds, envs) ==
    /\ heap = <<>>
    /\ instances = <<>>
    /\ declared = {}
    /\ dist \in ds
    /\ \E e \in envs : fs = e[1] /\ platform = e[2]
    /\ ret = NoRet

\* Shortcut(script, name, ...) by the package author: __new__ runs __init__
\* and adds the instance to _instances; a setter that raises ends it before
\* the add.  (type.__call__ then runs __init__ once more with the same
\* arguments, which assigns the same values.)
NewShortcut(cap, script, args, pos) ==
    LET h == Collected
        r == __init__(PyStr(script), args.name, args.generic_name,
                      args.description, args.icon, args.category, args.keywords)
        o == Len(h) + 1
    IN /\ Len(h) < cap
       /\ pos \in 1..(Len(instances) + 1)
       /\ IF r.ok
          THEN /\ heap' = Append(h, r.val)
               /\ instances' = SetAdd(instances, h, o, r.val, pos)
               /\ declared' = declared \cup {o}
               /\ ret' = [op |-> "new", script |-> script, obj |-> o,
                          fresh |-> FALSE, err |-> "", arg |-> args.icon]
          ELSE /\ heap' = h
               /\ UNCHANGED <<instances, declared>>
               /\ ret' = [op |-> "new", script |-> "", obj |-> 0,
                          fresh |-> FALSE, err |-> r.err, arg |-> args.icon]
       /\ UNCHANGED <<dist, fs, platform>>

\* shortcut.category = value, on a record somebody holds
SetCategory(o, value) ==
    LET r == CategorySetter(value, heap[o].category)
    IN /\ o \in 1..Len(heap)
       /\ heap' = [heap EXCEPT ![o].category = r.val]
       /\ ret' = [op |-> "setcat", script |-> "", obj |-> o, fresh |-> FALSE,
                  err |-> r.err, arg |-> value]
       /\ UNCHANGED <<instances, declared, dist, fs, platform>>

\* build_shortcuts._get_metadatas(script)
Resolve(cap, script, pos) ==
    LET h == Collected
        bare == __init__(PyStr(script), PyNone, PyNone, PyNone, PyNone, PyNone, PyNone).val
        o == Len(h) + 1
        h1 == Append(h, bare)
        table == SetAdd(instances, h, o, bare, pos)
        chosen == Scan(table, h1, script, o)
        r == Fill(h1[chosen])
        kept == chosen = o \/ table # instances
        h2 == [h1 EXCEPT ![chosen] = r.val]
    IN /\ pos \in 1..(Len(instances) + 1)
       /\ kept => Len(h) < cap
       /\ heap' = IF kept THEN h2 ELSE SubSeq(h2, 1, Len(h))
       /\ instances' = table
       /\ ret' = [op |-> "resolve", script |-> script, obj |-> chosen,
                  fresh |-> (chosen = o), err |-> r.err, arg |-> PyNone]
       /\ UNCHANGED <<declared, dist, fs, platform>>

Construct(cap) ==
    \E script \in Scripts, args \in ShortcutArgs, pos \in 1..cap :
        NewShortcut(cap, script, args, pos)

Assign ==
    \E o \in 1..Len(heap), value \in CategoryArgs : SetCategory(o, value)

GetMetadatas(cap) ==
    \E script \in Scripts, pos \in 1..cap : Resolve(cap, script, pos)

\* the registry: declarations and resolutions of two scripts
Init == InitWith({SampleDist, BareDist}, {LinuxNoData, LinuxData})
ConstructStep == Construct(MaxObjs)
GetMetadatasStep == GetMetadatas(MaxObjs)
Next == ConstructStep \/ GetMetadatasStep
Spec == Init /\ [][Next]_vars

\* one record: its construction, assignments to its category, its resolution
ConstructRecord == Construct(MaxRecord)
GetMetadatasRecord == GetMetadatas(MaxRecord)
NextCategory == ConstructRecord \/ Assign \/ GetMetadatasRecord
SpecCategory == Init /\ [][NextCategory]_vars

\* the inference over every package metadata, data directory and platform
InitInfer == InitWith(Dists, Filesystems \X Platforms)
NextInfer == ConstructRecord \/ GetMetadatasRecord
SpecInfer == InitInfer /\ [][NextInfer]_vars

----------------------------------------------------------------------------
(* Vocabulary of the properties *)

Range(l) == {l[k] : k \in 1..Len(l)}
Categories == Range(_FREE_DESKTOP_CATEGORIES)

\* the record Shortcut(script) as resolve creates it in its first step
Bare(script) ==
    [script |-> script, name |-> "", generic_name |-> "", description |-> "",
     icon |-> <<>>, category |-> "", keywords |-> <<>>]

\* in a step that ends a resolve: the record it returns, before and after
Resolved == ret'.op = "resolve" /\ ret'.err = ""
Before == IF ret'.fresh THEN Bare(ret'.script) ELSE heap[ret'.obj]
After == heap'[ret'.obj]

\* the package description and keywords as text and list
PackageDescription == IF dist.description.t = "str" THEN dist.description.v ELSE ""
PackageKeywords == dist.keywords.v

\* the segments of a classifier that are categories, and the first of them
HasCategory(cf) == \E k \in 1..Len(cf) : cf[k] \in Categories
CategoryOf(cf) ==
    cf[CHOOSE k \in 1..Len(cf) :
         cf[k] \in Categories /\ \A m \in 1..(k - 1) : cf[m] \notin Categories]
TopicIndexes ==
    {k \in 1..Len(dist.classifiers) :
        dist.classifiers[k][1] = "Topic" /\ HasCategory(dist.classifiers[k])}
\* the categories the Topic classifiers of the package offer
TopicCategories == {CategoryOf(dist.classifiers[k]) : k \in TopicIndexes}
\* the category of the first Topic classifier that has one
FirstTopicCategory ==
    IF TopicIndexes = {} THEN ""
    ELSE CategoryOf(dist.classifiers[CHOOSE k \in TopicIndexes :
                                       \A m \in TopicIndexes : k <= m])
InferredCategoryOk(c) ==
    IF TopicCategories = {} THEN c = "" ELSE c \in TopicCategories

\* a file of the data directory whose name starts with name + "."
DataFileFor(name) ==
    \E p \in fs.files : p.dir = DataDir /\ Len(p.file) >= 2 /\ p.file[1] = name

IsPrefix(a, b) == Len(a) <= Len(b) /\ SubSeq(b, 1, Len(a)) = a
RootedUnder(p, base) == IsPrefix(base, p.dir)

OtherScriptRegistered(o) ==
    \E r \in Registered : r # o /\ heap[r].script # heap[o].script

----------------------------------------------------------------------------
(* The claims *)

\* C1: when the author constructed a Shortcut with script S before resolve(S),
\* resolve(S) returns an author-declared record whose script is S, never the
\* bare record it created itself, whatever the scan order.
C1_DeclaredRecordPreferred ==
    (/\ ret.op = "resolve" /\ ret.err = ""
     /\ \E o \in declared : heap[o].script = ret.script)
    => (~ret.fresh /\ ret.obj \in declared /\ heap[ret.obj].script = ret.script)

\* C2: every successfully constructed Shortcut is in _instances right after
\* its construction and in every later state.
C2_ConstructedStaysRegistered == declared \subseteq Registered

\* C3: the registry never holds two distinct records with equal names.
C3_NoTwoRecordsShareName ==
    \A i, j \in 1..Len(instances) :
        i # j => heap[instances[i].obj].name # heap[instances[j].obj].name

\* C4: with no record for script S declared and no matching file in the data
\* directory, resolve(S) returns script = name = generic_name = S, the package
\* description and keywords, a category the Topic classifiers offer (empty
\* when they offer none) and an empty icon list, whatever else is registered.
C4_BareResolution ==
    (/\ ret.op = "resolve" /\ ret.err = ""
     /\ ~\E o \in declared : heap[o].script = ret.script
     /\ ~DataFileFor(ret.script))
    => LET r == heap[ret.obj]
       IN /\ r.script = ret.script
          /\ r.name = ret.script
          /\ r.generic_name = ret.script
          /\ r.description = PackageDescription
          /\ r.keywords = PackageKeywords
          /\ InferredCategoryOk(r.category)
          /\ r.icon = <<>>
C4_Witness ==
    /\ ret.op = "resolve" /\ ret.err = "" /\ ret.fresh
    /\ ~\E o \in declared : heap[o].script = ret.script
    /\ ~DataFileFor(ret.script)
    /\ OtherScriptRegistered(ret.obj)
    /\ heap[ret.obj].category \in Categories
    /\ heap[ret.obj].keywords = <<"sample", "app">>

\* C5: resolve only back-fills the record it returns: a field among name,
\* generic_name, description, category, keywords that was non-empty keeps its
\* value, an empty one is filled by its rule (name from script, generic_name
\* from name, description and keywords from the package, category from the
\* Topic classifiers), and every other record is left unchanged.
C5_BackFillOnly ==
    [][Resolved =>
        /\ After.script = Before.script
        /\ After.name = (IF Before.name # "" THEN Before.name ELSE Before.script)
        /\ After.generic_name =
              (IF Before.generic_name # "" THEN Before.generic_name ELSE After.name)
        /\ After.description =
              (IF Before.description # "" THEN Before.description
               ELSE PackageDescription)
        /\ IF Before.category # "" THEN After.category = Before.category
           ELSE InferredCategoryOk(After.category)
        /\ After.keywords =
              (IF Before.keywords # <<>> THEN Before.keywords ELSE PackageKeywords)
        /\ \A o \in (Registered \cup declared) \ {ret'.obj} : heap'[o] = heap[o]
      ]_vars
C5_Witness ==
    /\ ret.op = "resolve" /\ ret.err = "" /\ ret.obj \in declared
    /\ heap[ret.obj].name = "X"
    /\ heap[ret.obj].generic_name = "X"
    /\ heap[ret.obj].category = "Graphics"
    /\ heap[ret.obj].description = "D"
    /\ heap[ret.obj].keywords = <<"sample", "app">>
    /\ \E r \in Registered : r # ret.obj /\ heap[r].keywords = <<>>

\* C6: two consecutive resolve(S) calls return records equal field for field.
C6_ResolveIdempotent ==
    [][(/\ ret.op = "resolve" /\ ret.err = ""
        /\ Resolved /\ ret'.script = ret.script)
       => After = heap[ret.obj]]_vars

\* C7: every record's category is empty or one of the 12 categories; assigning
\* a category of the set stores it, assigning None stores the empty string,
\* assigning anything else raises and leaves the stored category as it was.
C7_CategoryValid ==
    [][/\ \A o \in 1..Len(heap') : heap'[o].category \in Categories \cup {""}
       /\ ret'.op = "setcat" =>
            LET value == ret'.arg
                o == ret'.obj
            IN IF value.t = "str" /\ value.v \in Categories
               THEN ret'.err = "" /\ heap'[o].category = value.v
               ELSE IF value.t = "NoneType"
               THEN ret'.err = "" /\ heap'[o].category = ""
               ELSE ret'.err # "" /\ heap'[o].category = heap[o].category
      ]_vars
C7_Witness ==
    /\ ret.op = "setcat" /\ ret.err = "TypeError"
    /\ ret.arg = PyStr("Bogus")
    /\ heap[ret.obj].category = "Game"
    /\ \E o \in 1..Len(heap) : o \notin declared /\ heap[o].category \in Categories

\* C8: constructing a Shortcut with an icon path under the package base
\* directory succeeds and the path is kept in the icon list; with a path not
\* under that directory the construction raises.
C8_IconUnderBaseAccepted ==
    (ret.op = "new" /\ IconPaths(ret.arg) # <<>>)
    => IF \A k \in 1..Len(IconPaths(ret.arg)) :
              RootedUnder(IconPaths(ret.arg)[k], _here.v)
       THEN ret.err = "" /\ heap[ret.obj].icon = IconPaths(ret.arg)
       ELSE ret.err # ""

\* C9: on linux, win and darwin, when the returned record's icon is empty and
\* the data directory exists, resolve completes and sets icon to exactly the
\* files of the data directory whose stem is the record's name and whose
\* extension is in the platform's whitelist; without the directory the icon
\* stays empty.
C9_IconsFromDataDirectory ==
    [][(/\ ret'.op = "resolve"
        /\ Before.icon = <<>>
        /\ _get_platform(platform).t = "str")
       => /\ ret'.err = ""
          /\ IF fs.dataIsDir
             THEN Range(After.icon) =
                    {p \in fs.files :
                        /\ p.dir = DataDir
                        /\ Len(p.file) = 2
                        /\ p.file[1] = After.name
                        /\ InList(p.file[2], _ICON_EXT[_get_platform(platform).v])}
             ELSE After.icon = <<>>
      ]_vars

\* C10: when the returned record's category is empty, resolve sets it to the
\* first category segment of the first Topic classifier that has one; later
\* classifiers do not override it, non-Topic classifiers are ignored, and it
\* stays empty when no Topic classifier has a category segment.
C10_FirstTopicClassifierWins ==
    [][(Resolved /\ Before.category = "")
       => After.category = FirstTopicCategory]_vars

====
